---------------------------- MODULE Spec2Model ----------------------------
(***************************************************************************)
(* SonicNote: the Ollama server supervisor of summarize.py (OllamaServer,  *)
(* its scoped use in __main__, summarize_file) and the detection pipeline   *)
(* of speaker_diarization_transcription.py (diarize_and_transcribe and the  *)
(* stages it calls).                                                        *)
(*                                                                         *)
(* Time is counted in ticks of 200 ms.  The clock `now` stands for         *)
(* time.time(); it advances only where the program blocks: a port probe    *)
(* (socket timeout) and time.sleep.  The child process, the port and the   *)
(* files are the environment; their changes are separate actions.  The    *)
(* diagnostic prints, the heartbeat of the polling loop among them, have   *)
(* no effect on the control flow and are left out.                         *)
(***************************************************************************)
EXTENDS Integers, Sequences, FiniteSets, TLC

VARIABLES
    \* ---- summarize.py: OllamaServer and __main__
    pc,              \* control position of summarize.py's __main__
    now,             \* time.time(), in ticks of 200 ms since the program started
    proc,            \* self.proc: "None" or the Popen handle "child"
    started_by_me,   \* self.started_by_me
    deadline,        \* local `deadline` of __enter__ (0 before it is set)
    acq,             \* how __enter__ ended: none/Reused/Ready/Failed...
    exc,             \* the exception in flight through the with block
    exitCalls,       \* number of calls of __exit__
    launches,        \* number of Popen(["ollama","serve"]) calls that succeeded
    sent,            \* signal calls made on self.proc, in order:
                     \* <<target, signal, "ok" or "raised">>
    childGot,        \* signals delivered to the live child
    waits,           \* each proc.wait(timeout=5), in order:
                     \* <<signal it followed, "exited" or "timeout">>
    probeInTime,     \* the last loop probe started before the deadline
    probeOk,         \* result of the last loop probe
    \* ---- the environment of the supervisor
    childAlive,      \* the launched `ollama serve` is running
    childKind,       \* weakest signal that stops the child: INT, TERM or KILL
    childListening,  \* the launched child listens on HOST:PORT
    otherListening,  \* some other process listens on HOST:PORT
    openedEarly,     \* history: the port became reachable within 1 s of launch
    openSinceEarly,  \* history: ... and has stayed reachable ever since
    \* ---- summarize.py: summarize_file
    inputFile,       \* text/transcription_output.txt: missing/unreadable/ok
    chatCalls,       \* number of ollama.chat calls
    response,        \* chunks left in the streamed response
    outFile,         \* text/summary_output.txt: absent/stale/open/closed
    written,         \* chunks written to the output file
    \* ---- speaker_diarization_transcription.py
    ppc,             \* control position of diarize_and_transcribe
    segments,        \* the detections returned by perform_diarization
    input,           \* history: the detections as they were handed to the filter
    min_duration,    \* threshold of filter_short_segments
    filtered_segments,
    merged_segments, \* the turns returned by merge_segments
    turn_of,         \* history: for each detection handed to merge_segments,
                     \* by its place in the sorted list, the index of the
                     \* turn it was copied or merged into
    results,         \* local `results` of process_segments
    turn,            \* index of the turn process_segments is working on
    tempFiles,       \* the temporary .wav files that exist: the set of the
                     \* turns they were created for
    outcomes,        \* history: what whisper_model.transcribe did for each
                     \* turn so far: "ok" or the failure
    pexc,            \* the exception that left diarize_and_transcribe
    audioFile,       \* the source audio file: missing/unreadable/ok
    modelsLoaded,    \* the diarization pipeline and whisper are loaded
    report           \* the report file: absent/stale/written

supVars == <<pc, now, proc, started_by_me, deadline, acq, exc,
             exitCalls, launches, sent, childGot, waits, probeInTime, probeOk>>
envVars == <<childAlive, childKind, childListening, otherListening,
             openedEarly, openSinceEarly>>
bodyVars == <<inputFile, chatCalls, response, outFile, written>>
procVars == <<results, turn, tempFiles, outcomes, pexc>>
runVars == <<audioFile, modelsLoaded, report>>
pipeVars == <<ppc, segments, input, min_duration, filtered_segments,
              merged_segments, turn_of, procVars, runVars>>
vars == <<supVars, envVars, bodyVars, pipeVars>>

--------------------------------------------------------------------------
(* Program constants, in ticks of 200 ms.                                  *)

\* is_port_open(..., timeout=0.2)
ProbeTimeout == 1
\* time.sleep(0.2)
PollInterval == 1
\* OllamaServer.__init__(..., startup_timeout_s=15)
startup_timeout_s == 75

(* Bounds of the model.                                                    *)

\* longest streamed response of ollama.chat, in chunks
MaxChunks == 2
\* longest sequence of detections
MaxLen == 3
\* largest start/end value of a detection
MaxT == 1
\* longest sequence of turns given to process_segments, and of detections
\* in a whole run of diarize_and_transcribe
MaxTurns == 2

Speakers == {"A", "B"}
Signals == {"INT", "TERM", "KILL"}

--------------------------------------------------------------------------
(* summarize.py, is_port_open: a TCP connect to HOST:PORT succeeds exactly *)
(* when some process listens there.                                        *)
is_port_open == childListening \/ otherListening

(* The with statement of __main__ (with OllamaServer(): summarize_file).   *)
\* faulty variant: the body runs although __enter__ raised
WithEnterRaised_RunBody == "body_exists"

(* An exception raised by __enter__ leaves the statement at once: neither  *)
(* the body nor __exit__ runs.                                             *)
WithEnterRaised == "exited_err"
(* The body is entered when __enter__ returns.                             *)
WithEnterReturned == "body_exists"
\* faulty variant: __exit__ is called only when the body returns
WithBodyLeft_OnlyOnReturn(e) == IF e = "none" THEN "exit_guard" ELSE "exited_err"

(* However the body is left, by return or by exception, __exit__ is called.*)
WithBodyLeft(e) == "exit_guard"
(* __exit__ returns None, so an exception of the body is re-raised.        *)
WithExitReturned(e) == IF e = "none" THEN "exited_ok" ELSE "exited_err"

AcquirePcs == {"enter", "launch", "loop", "probe", "pollchild", "sleep"}
PollPcs == {"loop", "probe", "pollchild", "sleep"}
BodyPcs == {"body_exists", "body_read", "body_chat", "body_open", "body_write"}
ExitPcs == {"exit_guard", "exit_int", "exit_wait1", "exit_term", "exit_wait2",
            "exit_kill"}
EndPcs == {"exited_ok", "exited_err"}

--------------------------------------------------------------------------
(* OllamaServer.__enter__                                                  *)

\* lines 26-29: the first probe; success means reuse, nothing is launched.
EnterProbe ==
    /\ pc = "enter"
    /\ \E d \in 0..ProbeTimeout : now' = now + d
    /\ IF is_port_open
         THEN /\ acq' = "Reused"
              /\ pc' = WithEnterReturned
         ELSE /\ acq' = acq
              /\ pc' = "launch"
    /\ UNCHANGED <<proc, started_by_me, deadline, exc, exitCalls,
                   launches, sent, childGot, waits, probeInTime, probeOk>>
    /\ UNCHANGED <<envVars, bodyVars, pipeVars>>

\* faulty variant: the flag is set before Popen is called
Launch_FlagFirst ==
    /\ pc = "launch"
    /\ started_by_me' = TRUE
    /\ \/ /\ acq' = "FailedLaunch"
          /\ exc' = "OSError"
          /\ pc' = WithEnterRaised
          /\ UNCHANGED <<proc, deadline, launches, childAlive, childKind>>
       \/ /\ proc' = "child"
          /\ launches' = launches + 1
          /\ childAlive' = TRUE
          /\ \E k \in Signals : childKind' = k
          /\ deadline' = now + startup_timeout_s
          /\ pc' = "loop"
          /\ UNCHANGED <<acq, exc>>
    /\ UNCHANGED <<now, exitCalls, sent, childGot, waits, probeInTime, probeOk,
                   childListening, otherListening, openedEarly, openSinceEarly>>
    /\ UNCHANGED <<bodyVars, pipeVars>>

\* lines 31-47: Popen, the flag, the deadline.  Popen raises when the
\* executable cannot be started; then nothing has been assigned.
Launch ==
    /\ pc = "launch"
    /\ \/ /\ acq' = "FailedLaunch"
          /\ exc' = "OSError"
          /\ pc' = WithEnterRaised
          /\ UNCHANGED <<proc, started_by_me, deadline, launches,
                         childAlive, childKind>>
       \/ /\ proc' = "child"
          /\ launches' = launches + 1
          /\ childAlive' = TRUE
          /\ \E k \in Signals : childKind' = k
          /\ started_by_me' = TRUE
          /\ deadline' = now + startup_timeout_s
          /\ pc' = "loop"
          /\ UNCHANGED <<acq, exc>>
    /\ UNCHANGED <<now, exitCalls, sent, childGot, waits, probeInTime, probeOk,
                   childListening, otherListening, openedEarly, openSinceEarly>>
    /\ UNCHANGED <<bodyVars, pipeVars>>

\* faulty variant: the loop condition is now <= deadline
LoopTest_OffByOne ==
    /\ pc = "loop"
    /\ IF now <= deadline
         THEN /\ pc' = "probe"
              /\ UNCHANGED <<acq, exc>>
         ELSE /\ acq' = "FailedTimeout"
              /\ exc' = "TimeoutError"
              /\ pc' = WithEnterRaised
    /\ UNCHANGED <<now, proc, started_by_me, deadline, exitCalls,
                   launches, sent, childGot, waits, probeInTime, probeOk>>
    /\ UNCHANGED <<envVars, bodyVars, pipeVars>>

\* lines 48 and 65: the loop condition; TimeoutError once it is false.
LoopTest ==
    /\ pc = "loop"
    /\ IF now < deadline
         THEN /\ pc' = "probe"
              /\ UNCHANGED <<acq, exc>>
         ELSE /\ acq' = "FailedTimeout"
              /\ exc' = "TimeoutError"
              /\ pc' = WithEnterRaised
    /\ UNCHANGED <<now, proc, started_by_me, deadline, exitCalls,
                   launches, sent, childGot, waits, probeInTime, probeOk>>
    /\ UNCHANGED <<envVars, bodyVars, pipeVars>>

\* lines 49-51: the probe of one poll; success returns self.
LoopProbe ==
    /\ pc = "probe"
    /\ probeInTime' = (now < deadline)
    /\ probeOk' = is_port_open
    /\ \E d \in 0..ProbeTimeout : now' = now + d
    /\ IF is_port_open
         THEN /\ acq' = "Ready"
              /\ pc' = WithEnterReturned
         ELSE /\ acq' = acq
              /\ pc' = "pollchild"
    /\ UNCHANGED <<proc, started_by_me, deadline, exc, exitCalls,
                   launches, sent, childGot, waits>>
    /\ UNCHANGED <<envVars, bodyVars, pipeVars>>

\* faulty variant: the exit status of the child is not looked at
LoopPollChild_IgnoreExit ==
    /\ pc = "pollchild"
    /\ pc' = "sleep"
    /\ UNCHANGED <<now, proc, started_by_me, deadline, acq, exc, exitCalls,
                   launches, sent, childGot, waits, probeInTime, probeOk>>
    /\ UNCHANGED <<envVars, bodyVars, pipeVars>>

\* lines 53-54: proc.poll(); RuntimeError when the child has exited
LoopPollChild ==
    /\ pc = "pollchild"
    /\ IF ~childAlive
         THEN /\ acq' = "FailedExited"
              /\ exc' = "RuntimeError"
              /\ pc' = WithEnterRaised
         ELSE /\ pc' = "sleep"
              /\ UNCHANGED <<acq, exc>>
    /\ UNCHANGED <<now, proc, started_by_me, deadline, exitCalls, launches,
                   sent, childGot, waits, probeInTime, probeOk>>
    /\ UNCHANGED <<envVars, bodyVars, pipeVars>>

\* faulty variant: time.sleep(2)
LoopSleep_Long ==
    /\ pc = "sleep"
    /\ now' = now + 10 * PollInterval
    /\ pc' = "loop"
    /\ UNCHANGED <<proc, started_by_me, deadline, acq, exc,
                   exitCalls, launches, sent, childGot, waits, probeInTime, probeOk>>
    /\ UNCHANGED <<envVars, bodyVars, pipeVars>>

\* line 63: time.sleep(0.2)
LoopSleep ==
    /\ pc = "sleep"
    /\ now' = now + PollInterval
    /\ pc' = "loop"
    /\ UNCHANGED <<proc, started_by_me, deadline, acq, exc,
                   exitCalls, launches, sent, childGot, waits, probeInTime, probeOk>>
    /\ UNCHANGED <<envVars, bodyVars, pipeVars>>

--------------------------------------------------------------------------
(* The environment while __enter__ runs.  An event is stamped with the     *)
(* clock value at which the program can first observe it.                  *)

\* the launch instant, known once the deadline has been computed
launchTime == deadline - startup_timeout_s
\* within one second (five poll intervals) of the launch
WithinFirstSecond == started_by_me /\ now <= launchTime + 5 * PollInterval

\* the launched `ollama serve` binds the port (it is free)
ChildListens ==
    /\ pc \in PollPcs
    /\ childAlive /\ ~is_port_open
    /\ childListening' = TRUE
    /\ openedEarly' = (openedEarly \/ WithinFirstSecond)
    /\ openSinceEarly' = WithinFirstSecond
    /\ UNCHANGED <<childAlive, childKind, otherListening>>
    /\ UNCHANGED <<supVars, bodyVars, pipeVars>>

\* the launched child exits by itself (crash, port in use, ...), at any
\* moment before the release begins; what it does once it is signalled is
\* fixed by childKind
ChildExits ==
    /\ pc \in PollPcs \cup BodyPcs
    /\ childAlive
    /\ childAlive' = FALSE
    /\ childListening' = FALSE
    /\ openSinceEarly' = (openSinceEarly /\ otherListening)
    /\ UNCHANGED <<childKind, otherListening, openedEarly>>
    /\ UNCHANGED <<supVars, bodyVars, pipeVars>>

\* another process starts to listen on the port
OtherListens ==
    /\ pc \in AcquirePcs \ {"enter"}
    /\ ~is_port_open
    /\ otherListening' = TRUE
    /\ openedEarly' = (openedEarly \/ WithinFirstSecond)
    /\ openSinceEarly' = WithinFirstSecond
    /\ UNCHANGED <<childAlive, childKind, childListening>>
    /\ UNCHANGED <<supVars, bodyVars, pipeVars>>

\* the other process stops listening
OtherStops ==
    /\ pc \in AcquirePcs \ {"enter"}
    /\ otherListening
    /\ otherListening' = FALSE
    /\ openSinceEarly' = FALSE
    /\ UNCHANGED <<childAlive, childKind, childListening, openedEarly>>
    /\ UNCHANGED <<supVars, bodyVars, pipeVars>>

--------------------------------------------------------------------------
(* summarize_file, the body of the with block                              *)

\* lines 91-93: a missing input file ends the function
BodyExists ==
    /\ pc = "body_exists"
    /\ pc' = IF inputFile = "missing" THEN WithBodyLeft(exc) ELSE "body_read"
    /\ UNCHANGED <<now, proc, started_by_me, deadline, acq, exc,
                   exitCalls, launches, sent, childGot, waits, probeInTime, probeOk>>
    /\ UNCHANGED <<envVars, bodyVars, pipeVars>>

\* lines 96-101: an unreadable input file ends the function
BodyRead ==
    /\ pc = "body_read"
    /\ pc' = IF inputFile = "unreadable" THEN WithBodyLeft(exc) ELSE "body_chat"
    /\ UNCHANGED <<now, proc, started_by_me, deadline, acq, exc,
                   exitCalls, launches, sent, childGot, waits, probeInTime, probeOk>>
    /\ UNCHANGED <<envVars, bodyVars, pipeVars>>

\* lines 126-133: ollama.chat(stream=True): a stream of chunks, or an error
BodyChat ==
    /\ pc = "body_chat"
    /\ chatCalls' = chatCalls + 1
    /\ \/ /\ \E n \in 0..MaxChunks : response' = n
          /\ pc' = "body_open"
          /\ exc' = exc
       \/ /\ exc' = "ChatError"
          /\ pc' = WithBodyLeft("ChatError")
          /\ response' = response
    /\ UNCHANGED <<now, proc, started_by_me, deadline, acq,
                   exitCalls, launches, sent, childGot, waits, probeInTime, probeOk>>
    /\ UNCHANGED <<envVars, inputFile, outFile, written, pipeVars>>

\* lines 136-139: open(output_filename, 'w') creates or truncates the file
BodyOpen ==
    /\ pc = "body_open"
    /\ outFile' = "open"
    /\ written' = 0
    /\ pc' = "body_write"
    /\ UNCHANGED <<now, proc, started_by_me, deadline, acq, exc,
                   exitCalls, launches, sent, childGot, waits, probeInTime, probeOk>>
    /\ UNCHANGED <<envVars, inputFile, chatCalls, response, pipeVars>>

\* lines 139-145: each chunk is written as it arrives; the stream may fail
\* between chunks; leaving the inner with closes the file either way
BodyWrite ==
    /\ pc = "body_write"
    /\ \/ /\ response > 0
          /\ response' = response - 1
          /\ written' = written + 1
          /\ UNCHANGED <<pc, exc, outFile>>
       \/ /\ response > 0
          /\ exc' = "ChatError"
          /\ outFile' = "closed"
          /\ pc' = WithBodyLeft("ChatError")
          /\ UNCHANGED <<response, written>>
       \/ /\ response = 0
          /\ outFile' = "closed"
          /\ pc' = WithBodyLeft(exc)
          /\ UNCHANGED <<exc, response, written>>
    /\ UNCHANGED <<now, proc, started_by_me, deadline, acq,
                   exitCalls, launches, sent, childGot, waits, probeInTime, probeOk>>
    /\ UNCHANGED <<envVars, inputFile, chatCalls, pipeVars>>

--------------------------------------------------------------------------
(* OllamaServer.__exit__                                                   *)

\* the child exits within a bounded wait exactly when it is alive and has
\* been delivered a signal at least as strong as its kind
Rank(sig) == CASE sig = "INT" -> 1 [] sig = "TERM" -> 2 [] sig = "KILL" -> 3
Honours(got) == \E g \in got : Rank(g) >= Rank(childKind)

\* faulty variant: the guard of __exit__ is missing
ExitGuard_NoGuard ==
    /\ pc = "exit_guard"
    /\ exitCalls' = exitCalls + 1
    /\ pc' = "exit_int"
    /\ UNCHANGED <<now, proc, started_by_me, deadline, acq, exc,
                   launches, sent, childGot, waits, probeInTime, probeOk>>
    /\ UNCHANGED <<envVars, bodyVars, pipeVars>>

\* lines 67-69: nothing to do unless this object started the child
ExitGuard ==
    /\ pc = "exit_guard"
    /\ exitCalls' = exitCalls + 1
    /\ pc' = IF ~(started_by_me /\ proc # "None")
               THEN WithExitReturned(exc) ELSE "exit_int"
    /\ UNCHANGED <<now, proc, started_by_me, deadline, acq, exc,
                   launches, sent, childGot, waits, probeInTime, probeOk>>
    /\ UNCHANGED <<envVars, bodyVars, pipeVars>>

\* A signal call on the handle (send_signal, terminate, kill).  The call
\* does nothing when the child has already exited; delivery to a live
\* child may fail, and then the call raises.
Signal(sig, okPc, failPc) ==
    /\ \/ /\ sent' = Append(sent, <<proc, sig, "ok">>)
          /\ childGot' = IF childAlive THEN childGot \cup {sig} ELSE childGot
          /\ pc' = okPc
       \/ /\ childAlive
          /\ sent' = Append(sent, <<proc, sig, "raised">>)
          /\ childGot' = childGot
          /\ pc' = failPc
    /\ UNCHANGED <<now, proc, started_by_me, deadline, acq, exc,
                   exitCalls, launches, waits, probeInTime, probeOk>>
    /\ UNCHANGED <<envVars, bodyVars, pipeVars>>

\* faulty variant: proc.wait() without a timeout
Wait_NoTimeout(after, okPc, failPc) ==
    /\ \/ /\ ~childAlive
          /\ UNCHANGED <<childAlive, childListening>>
       \/ /\ childAlive /\ Honours(childGot)
          /\ childAlive' = FALSE
          /\ childListening' = FALSE
    /\ waits' = Append(waits, <<after, "exited">>)
    /\ pc' = okPc
    /\ UNCHANGED <<now, proc, started_by_me, deadline, acq, exc,
                   exitCalls, launches, sent, childGot, probeInTime, probeOk>>
    /\ UNCHANGED <<childKind, otherListening, openedEarly, openSinceEarly>>
    /\ UNCHANGED <<bodyVars, pipeVars>>

\* proc.wait(timeout=5): returns once the child has exited, raises
\* TimeoutExpired when the five seconds pass first.
Wait(after, okPc, failPc) ==
    /\ \/ /\ ~childAlive
          /\ waits' = Append(waits, <<after, "exited">>)
          /\ pc' = okPc
          /\ UNCHANGED <<childAlive, childListening>>
       \/ /\ childAlive /\ Honours(childGot)
          /\ waits' = Append(waits, <<after, "exited">>)
          /\ childAlive' = FALSE
          /\ childListening' = FALSE
          /\ pc' = okPc
       \/ /\ childAlive /\ ~Honours(childGot)
          /\ waits' = Append(waits, <<after, "timeout">>)
          /\ pc' = failPc
          /\ UNCHANGED <<childAlive, childListening>>
    /\ UNCHANGED <<now, proc, started_by_me, deadline, acq, exc,
                   exitCalls, launches, sent, childGot, probeInTime, probeOk>>
    /\ UNCHANGED <<childKind, otherListening, openedEarly, openSinceEarly>>
    /\ UNCHANGED <<bodyVars, pipeVars>>

\* lines 72-76: the graceful stop, SIGINT (CTRL_BREAK_EVENT on Windows)
ExitInt == pc = "exit_int" /\ Signal("INT", "exit_wait1", "exit_term")

\* faulty variant: terminate follows the first wait however it ended
ExitWait1_AlwaysEscalate ==
    pc = "exit_wait1" /\ Wait("INT", "exit_term", "exit_term")

\* lines 77-80: the first bounded wait
ExitWait1 ==
    pc = "exit_wait1" /\ Wait("INT", WithExitReturned(exc), "exit_term")

\* lines 81-82: terminate
ExitTerm == pc = "exit_term" /\ Signal("TERM", "exit_wait2", "exit_kill")

\* lines 83-86: the second bounded wait
ExitWait2 ==
    pc = "exit_wait2" /\ Wait("TERM", WithExitReturned(exc), "exit_kill")

\* lines 87-88: kill, outside any try and followed by no wait; SIGKILL
\* cannot be ignored
ExitKill ==
    /\ pc = "exit_kill"
    /\ sent' = Append(sent, <<proc, "KILL", "ok">>)
    /\ childGot' = IF childAlive THEN childGot \cup {"KILL"} ELSE childGot
    /\ childAlive' = FALSE
    /\ childListening' = FALSE
    /\ pc' = WithExitReturned(exc)
    /\ UNCHANGED <<now, proc, started_by_me, deadline, acq, exc,
                   exitCalls, launches, waits, probeInTime, probeOk>>
    /\ UNCHANGED <<childKind, otherListening, openedEarly, openSinceEarly>>
    /\ UNCHANGED <<bodyVars, pipeVars>>

--------------------------------------------------------------------------
(* speaker_diarization_transcription.py                                    *)

Detections == [speaker : Speakers, start : 0..MaxT, end : 0..MaxT]
SeqsUpTo(S, n) == UNION {[1..k -> S] : k \in 0..n}

\* the scenario [(A,0,2),(B,2.5,2.8),(A,3,5)], in tenths of a second
Scenario ==
    << [speaker |-> "A", start |-> 0, end |-> 20],
       [speaker |-> "B", start |-> 25, end |-> 28],
       [speaker |-> "A", start |-> 30, end |-> 50] >>

\* faulty variant: duration > min_duration
Keep_Strict(segment, min) ==
    LET duration == segment.end - segment.start
    IN  duration > min

\* faulty variant: the length of the span without its sign
Keep_Abs(segment, min) ==
    LET duration == segment.end - segment.start
    IN  (IF duration < 0 THEN 0 - duration ELSE duration) >= min

\* lines 54-55: the test that keeps a segment
Keep(segment, min) ==
    LET duration == segment.end - segment.start
    IN  duration >= min

\* lines 52-59: the loop over the input, appending what is kept
RECURSIVE FilterLoop(_, _, _, _)
FilterLoop(segs, min, i, acc) ==
    IF i > Len(segs)
        THEN acc
        ELSE FilterLoop(segs, min, i + 1,
                        IF Keep(segs[i], min) THEN Append(acc, segs[i]) ELSE acc)

filter_short_segments(segs, min) == FilterLoop(segs, min, 1, <<>>)

\* line 169: filtered_segments = filter_short_segments(segments)
Filter ==
    /\ ppc = "filter"
    /\ filtered_segments' = filter_short_segments(segments, min_duration)
    /\ ppc' = "merge"
    /\ UNCHANGED <<segments, input, min_duration, merged_segments, turn_of>>
    /\ UNCHANGED <<procVars, runVars>>
    /\ UNCHANGED <<supVars, envVars, bodyVars>>

Max(a, b) == IF a >= b THEN a ELSE b

(* merge_segments works on dict objects: it sorts references to them,      *)
(* copies some and assigns to the "end" of a copy.  A heap is a sequence   *)
(* of dict contents and a reference is an index into it; the dicts of the  *)
(* argument list are the references 1..Len(segments).                      *)

\* faulty variant: ties are put in front of the detections that came
\* earlier (an unstable sort)
RECURSIVE InsertByStart_TiesFirst(_, _, _)
InsertByStart_TiesFirst(h, s, x) ==
    IF s = <<>> THEN <<x>>
    ELSE IF h[x].start <= h[Head(s)].start
        THEN <<x>> \o s
        ELSE <<Head(s)>> \o InsertByStart_TiesFirst(h, Tail(s), x)

\* line 75, the stability of sorted(): a reference goes behind every
\* reference already placed whose start is not greater
RECURSIVE InsertByStart(_, _, _)
InsertByStart(h, s, x) ==
    IF s = <<>> THEN <<x>>
    ELSE IF h[x].start < h[Head(s)].start
        THEN <<x>> \o s
        ELSE <<Head(s)>> \o InsertByStart(h, Tail(s), x)

RECURSIVE SortLoop(_, _, _)
SortLoop(h, i, acc) ==
    IF i > Len(h) THEN acc ELSE SortLoop(h, i + 1, InsertByStart(h, acc, i))

\* faulty variant: the list is taken in the order it came in
sorted_Unsorted(h) == [i \in 1..Len(h) |-> i]

\* line 75: sorted(segments, key=lambda x: x["start"]), a new list of the
\* same dicts
sorted(h) == SortLoop(h, 1, <<>>)

\* faulty variant: no copy, the list holds the argument's own dict
dict_copy_Alias(h, x) == [heap |-> h, ref |-> x]

\* lines 77 and 87: .copy() makes a new dict with the same contents
dict_copy(h, x) == [heap |-> Append(h, h[x]), ref |-> Len(h) + 1]

\* faulty variant: the same speaker and no gap between the two
SameSpeaker_NoGap(current_segment, last_segment) ==
    /\ current_segment.speaker = last_segment.speaker
    /\ current_segment.start <= last_segment.end

\* line 82
SameSpeaker(current_segment, last_segment) ==
    current_segment.speaker = last_segment.speaker

\* lines 79-87.  `into` records, for each element of the sorted list taken
\* so far, the index of the element of merged_segments it went into.
RECURSIVE MergeLoop(_, _, _, _, _)
MergeLoop(h, srt, i, merged, into) ==
    IF i > Len(srt) THEN [heap |-> h, merged |-> merged, into |-> into]
    ELSE LET current_segment == srt[i]
             last_segment == merged[Len(merged)]
         IN  IF SameSpeaker(h[current_segment], h[last_segment])
               THEN MergeLoop([h EXCEPT ![last_segment].end =
                                  Max(h[last_segment].end,
                                      h[current_segment].end)],
                              srt, i + 1, merged, Append(into, Len(merged)))
               ELSE LET c == dict_copy(h, current_segment)
                    IN  MergeLoop(c.heap, srt, i + 1, Append(merged, c.ref),
                                  Append(into, Len(merged) + 1))

\* lines 61-90.  `merged` is the returned list, `arg` the contents of the
\* argument's dicts after the call.
merge_segments(segs) ==
    IF segs = <<>> THEN [merged |-> <<>>, arg |-> segs, into |-> <<>>]
    ELSE LET srt == sorted(segs)
             c == dict_copy(segs, srt[1])
             r == MergeLoop(c.heap, srt, 2, <<c.ref>>, <<1>>)
         IN  [merged |-> [j \in 1..Len(r.merged) |-> r.heap[r.merged[j]]],
              arg |-> [j \in 1..Len(segs) |-> r.heap[j]],
              into |-> r.into]

\* filter_short_segments appends the dicts of its input themselves (line
\* 56), so the list of detections shows what is done to a kept dict
RECURSIVE SeenThrough(_, _, _, _, _)
SeenThrough(segs, min, arg, i, j) ==
    IF i > Len(segs) THEN <<>>
    ELSE IF Keep(segs[i], min)
        THEN <<arg[j]>> \o SeenThrough(segs, min, arg, i + 1, j + 1)
        ELSE <<segs[i]>> \o SeenThrough(segs, min, arg, i + 1, j)

\* line 170: merged_segments = merge_segments(filtered_segments)
Merge ==
    /\ ppc = "merge"
    /\ LET r == merge_segments(filtered_segments)
       IN  /\ merged_segments' = r.merged
           /\ turn_of' = r.into
           /\ filtered_segments' = r.arg
           /\ segments' = SeenThrough(segments, min_duration, r.arg, 1, 1)
    /\ ppc' = "process"
    /\ UNCHANGED <<input, min_duration>>
    /\ UNCHANGED <<procVars, runVars>>
    /\ UNCHANGED <<supVars, envVars, bodyVars>>

\* the ways whisper_model.transcribe and the lookup of result["text"] fail
Failures == {"RuntimeError", "KeyError"}

\* lines 116-118: audio[start_ms:end_ms]
Slice(segment) == <<segment.start * 1000, segment.end * 1000>>

\* line 101: the text whisper gives for a slice
Whisper(slice) == <<"text", slice>>

\* line 103
Sentinel(e) == <<"[Transcription error: ", e, "]">>

\* faulty variant: the newest result is put in front
Collect_InFront(res, segment, text) ==
    <<[speaker |-> segment.speaker, start |-> segment.start,
       end |-> segment.end, transcript |-> text]>> \o res

\* lines 122-127: results.append({...})
Collect(res, segment, text) ==
    Append(res, [speaker |-> segment.speaker, start |-> segment.start,
                 end |-> segment.end, transcript |-> text])

\* lines 115 and 132: the next turn, or the return of process_segments
ProcessNext ==
    /\ ppc = "process"
    /\ IF turn < Len(merged_segments)
         THEN turn' = turn + 1 /\ ppc' = "tempfile"
         ELSE turn' = turn /\ ppc' = "save"
    /\ UNCHANGED <<segments, input, min_duration, filtered_segments,
                   merged_segments, turn_of>>
    /\ UNCHANGED <<results, tempFiles, outcomes, pexc, runVars>>
    /\ UNCHANGED <<supVars, envVars, bodyVars>>

\* lines 94-95: NamedTemporaryFile(suffix=".wav", delete=False) creates the
\* file and the with block closes it
TempFile ==
    /\ ppc = "tempfile"
    /\ tempFiles' = tempFiles \cup {turn}
    /\ ppc' = "export"
    /\ UNCHANGED <<segments, input, min_duration, filtered_segments,
                   merged_segments, turn_of>>
    /\ UNCHANGED <<results, turn, outcomes, pexc, runVars>>
    /\ UNCHANGED <<supVars, envVars, bodyVars>>

\* line 97: audio_segment.export(temp_wav_path, format="wav"), before the
\* try statement; what it raises leaves transcribe_segment,
\* process_segments and diarize_and_transcribe, none of which handles it
Export ==
    /\ ppc = "export"
    /\ \/ ppc' = "transcribe" /\ pexc' = pexc
       \/ ppc' = "raised" /\ pexc' = "ExportError"
    /\ UNCHANGED <<segments, input, min_duration, filtered_segments,
                   merged_segments, turn_of>>
    /\ UNCHANGED <<results, turn, tempFiles, outcomes, runVars>>
    /\ UNCHANGED <<supVars, envVars, bodyVars>>

\* faulty variant: no except clause, the failure leaves the function
Transcribe_NoExcept ==
    /\ ppc = "transcribe"
    /\ \/ /\ outcomes' = Append(outcomes, "ok")
          /\ results' = Collect(results, merged_segments[turn],
                                Whisper(Slice(merged_segments[turn])))
          /\ ppc' = "process"
          /\ pexc' = pexc
       \/ \E e \in Failures :
              /\ outcomes' = Append(outcomes, e)
              /\ results' = results
              /\ ppc' = "raised"
              /\ pexc' = e
    /\ tempFiles' = tempFiles \ {turn}
    /\ UNCHANGED <<segments, input, min_duration, filtered_segments,
                   merged_segments, turn_of>>
    /\ UNCHANGED <<turn, runVars>>
    /\ UNCHANGED <<supVars, envVars, bodyVars>>

\* lines 99-108 and 120-127: the transcription succeeds or fails, the
\* except clause turns a failure into the sentinel text, the finally
\* clause removes the file, and the result is appended
Transcribe ==
    /\ ppc = "transcribe"
    /\ \/ /\ outcomes' = Append(outcomes, "ok")
          /\ results' = Collect(results, merged_segments[turn],
                                Whisper(Slice(merged_segments[turn])))
       \/ \E e \in Failures :
              /\ outcomes' = Append(outcomes, e)
              /\ results' = Collect(results, merged_segments[turn],
                                    Sentinel(e))
    /\ tempFiles' = tempFiles \ {turn}
    /\ ppc' = "process"
    /\ UNCHANGED <<segments, input, min_duration, filtered_segments,
                   merged_segments, turn_of>>
    /\ UNCHANGED <<turn, pexc, runVars>>
    /\ UNCHANGED <<supVars, envVars, bodyVars>>

\* filter_short_segments(segments, min_duration=1.0), called without a
\* threshold at line 169; a time unit of the detections is one second here
min_duration_default == 1

\* faulty variant: the models are loaded before the file is looked for
Start_LoadFirst ==
    /\ ppc = "start"
    /\ modelsLoaded' = TRUE
    /\ ppc' = IF audioFile = "missing" THEN "returned_none" ELSE "load_audio"
    /\ UNCHANGED <<segments, input, min_duration, filtered_segments,
                   merged_segments, turn_of>>
    /\ UNCHANGED <<procVars, audioFile, report>>
    /\ UNCHANGED <<supVars, envVars, bodyVars>>

\* lines 155-159: a missing audio file ends the function with None
Start ==
    /\ ppc = "start"
    /\ modelsLoaded' = modelsLoaded
    /\ ppc' = IF audioFile = "missing" THEN "returned_none" ELSE "load_models"
    /\ UNCHANGED <<segments, input, min_duration, filtered_segments,
                   merged_segments, turn_of>>
    /\ UNCHANGED <<procVars, audioFile, report>>
    /\ UNCHANGED <<supVars, envVars, bodyVars>>

\* lines 162-164: the diarization pipeline and the whisper model
LoadModels ==
    /\ ppc = "load_models"
    /\ modelsLoaded' = TRUE
    /\ ppc' = "load_audio"
    /\ UNCHANGED <<segments, input, min_duration, filtered_segments,
                   merged_segments, turn_of>>
    /\ UNCHANGED <<procVars, audioFile, report>>
    /\ UNCHANGED <<supVars, envVars, bodyVars>>

\* line 167: load_audio_file raises on a file it cannot decode
LoadAudio ==
    /\ ppc = "load_audio"
    /\ IF audioFile = "unreadable"
         THEN ppc' = "raised" /\ pexc' = "CouldntDecodeError"
         ELSE ppc' = "diarize" /\ pexc' = pexc
    /\ UNCHANGED <<segments, input, min_duration, filtered_segments,
                   merged_segments, turn_of>>
    /\ UNCHANGED <<results, turn, tempFiles, outcomes, runVars>>
    /\ UNCHANGED <<supVars, envVars, bodyVars>>

\* line 168: perform_diarization returns the detections
Diarize ==
    /\ ppc = "diarize"
    /\ \E d \in SeqsUpTo(Detections, MaxTurns) :
          segments' = d /\ input' = d
    /\ ppc' = "filter"
    /\ UNCHANGED <<min_duration, filtered_segments, merged_segments, turn_of>>
    /\ UNCHANGED <<procVars, runVars>>
    /\ UNCHANGED <<supVars, envVars, bodyVars>>

\* lines 174-177 and 134-142: save_results opens the report file for
\* writing and writes the results; then the results are returned
Save ==
    /\ ppc = "save"
    /\ report' = "written"
    /\ ppc' = "returned"
    /\ UNCHANGED <<segments, input, min_duration, filtered_segments,
                   merged_segments, turn_of>>
    /\ UNCHANGED <<procVars, audioFile, modelsLoaded>>
    /\ UNCHANGED <<supVars, envVars, bodyVars>>

--------------------------------------------------------------------------
(* Initial states                                                          *)

\* OllamaServer.__init__ has run; the port and the files are as the
\* environment left them.
InitSupervisor ==
    /\ pc = "enter"
    /\ now = 0
    /\ proc = "None"
    /\ started_by_me = FALSE
    /\ deadline = 0
    /\ acq = "none"
    /\ exc = "none"
    /\ exitCalls = 0
    /\ launches = 0
    /\ sent = <<>>
    /\ childGot = {}
    /\ waits = <<>>
    /\ probeInTime = FALSE
    /\ probeOk = FALSE
    /\ childAlive = FALSE
    /\ childKind = "INT"
    /\ childListening = FALSE
    /\ otherListening \in BOOLEAN
    /\ openedEarly = FALSE
    /\ openSinceEarly = FALSE
    /\ inputFile \in {"missing", "unreadable", "ok"}
    /\ chatCalls = 0
    /\ response = 0
    /\ outFile \in {"absent", "stale"}
    /\ written = 0

IdleSupervisor ==
    /\ InitSupervisor
    /\ otherListening = FALSE
    /\ inputFile = "ok"
    /\ outFile = "absent"

\* summarize.py is not run
OffSupervisor ==
    /\ pc = "off"
    /\ now = 0
    /\ proc = "None"
    /\ started_by_me = FALSE
    /\ deadline = 0
    /\ acq = "none"
    /\ exc = "none"
    /\ exitCalls = 0
    /\ launches = 0
    /\ sent = <<>>
    /\ childGot = {}
    /\ waits = <<>>
    /\ probeInTime = FALSE
    /\ probeOk = FALSE
    /\ childAlive = FALSE
    /\ childKind = "INT"
    /\ childListening = FALSE
    /\ otherListening = FALSE
    /\ openedEarly = FALSE
    /\ openSinceEarly = FALSE
    /\ inputFile = "missing"
    /\ chatCalls = 0
    /\ response = 0
    /\ outFile = "absent"
    /\ written = 0

\* the detections have been produced (line 168); the filter is next.  The
\* inputs are all short sequences over a small range of times, with every
\* threshold of that range, and the scenario above with its threshold of
\* 1.0 s.
InitPipeline ==
    /\ ppc = "filter"
    /\ \/ /\ segments \in SeqsUpTo(Detections, MaxLen)
          /\ min_duration \in (0 - MaxT)..MaxT
       \/ /\ segments = Scenario
          /\ min_duration = 10
    /\ input = segments
    /\ filtered_segments = <<>>
    /\ merged_segments = <<>>
    /\ turn_of = <<>>
    /\ results = <<>>
    /\ turn = 0
    /\ tempFiles = {}
    /\ outcomes = <<>>
    /\ pexc = "none"
    /\ audioFile = "ok"
    /\ modelsLoaded = TRUE
    /\ report = "absent"

\* process_segments is called with a sequence of turns (line 171)
InitTranscribe ==
    /\ ppc = "process"
    /\ merged_segments \in SeqsUpTo(Detections, MaxTurns)
    /\ segments = <<>>
    /\ input = <<>>
    /\ min_duration = 0
    /\ filtered_segments = <<>>
    /\ turn_of = <<>>
    /\ results = <<>>
    /\ turn = 0
    /\ tempFiles = {}
    /\ outcomes = <<>>
    /\ pexc = "none"
    /\ audioFile = "ok"
    /\ modelsLoaded = TRUE
    /\ report = "absent"

\* diarize_and_transcribe is called by __main__ (lines 194-198)
InitRun ==
    /\ ppc = "start"
    /\ audioFile \in {"missing", "unreadable", "ok"}
    /\ modelsLoaded = FALSE
    /\ report \in {"absent", "stale"}
    /\ segments = <<>>
    /\ input = <<>>
    /\ min_duration = min_duration_default
    /\ filtered_segments = <<>>
    /\ merged_segments = <<>>
    /\ turn_of = <<>>
    /\ results = <<>>
    /\ turn = 0
    /\ tempFiles = {}
    /\ outcomes = <<>>
    /\ pexc = "none"

IdlePipeline ==
    /\ ppc = "idle"
    /\ segments = <<>>
    /\ input = <<>>
    /\ min_duration = 0
    /\ filtered_segments = <<>>
    /\ merged_segments = <<>>
    /\ turn_of = <<>>
    /\ results = <<>>
    /\ turn = 0
    /\ tempFiles = {}
    /\ outcomes = <<>>
    /\ pexc = "none"
    /\ audioFile = "ok"
    /\ modelsLoaded = FALSE
    /\ report = "absent"

--------------------------------------------------------------------------
(* Specifications                                                          *)

\* the single control flow of summarize.py
ProgramStep ==
    \/ EnterProbe \/ Launch \/ LoopTest \/ LoopProbe \/ LoopPollChild
    \/ LoopSleep
    \/ BodyExists \/ BodyRead \/ BodyChat \/ BodyOpen \/ BodyWrite
    \/ ExitGuard \/ ExitInt \/ ExitWait1 \/ ExitTerm \/ ExitWait2 \/ ExitKill

EnvStep == ChildListens \/ ChildExits \/ OtherListens \/ OtherStops

Init == InitSupervisor /\ IdlePipeline
Next == ProgramStep \/ EnvStep
Spec == Init /\ [][Next]_vars

\* a blocking call of the single control flow always returns or raises
FairSpec == Spec /\ WF_vars(ProgramStep)

InitP == IdleSupervisor /\ InitPipeline
NextP == Filter \/ Merge
SpecPipeline == InitP /\ [][NextP]_vars

InitT == IdleSupervisor /\ InitTranscribe
NextT == ProcessNext \/ TempFile \/ Export \/ Transcribe
SpecTranscribe == InitT /\ [][NextT]_vars

\* a run of one of the two programs: summarize.py, or
\* speaker_diarization_transcription.py from its __main__
InitR == OffSupervisor /\ InitRun
NextR ==
    \/ Start \/ LoadModels \/ LoadAudio \/ Diarize \/ Filter \/ Merge
    \/ ProcessNext \/ TempFile \/ Export \/ Transcribe \/ Save
InitPrograms == Init \/ InitR
NextPrograms == Next \/ NextR
SpecPrograms == InitPrograms /\ [][NextPrograms]_vars

--------------------------------------------------------------------------
(* Properties of the supervisor                                            *)

\* the signals of the calls made so far, in order
SentSigs == [i \in 1..Len(sent) |-> sent[i][2]]
IsPrefix(a, b) == Len(a) <= Len(b) /\ \A i \in 1..Len(a) : a[i] = b[i]
Escalation == <<"INT", "TERM", "KILL">>
Failed == {"FailedExited", "FailedTimeout"}

\* C1: when the first probe succeeds nothing is launched, started_by_me
\* stays false and __exit__ sends no signal and waits for nothing; in every
\* run each signal call goes to the handle of a child that this object
\* launched itself.
C1_ReuseNeverActs ==
    /\ acq = "Reused" =>
          /\ launches = 0 /\ proc = "None" /\ ~started_by_me
          /\ sent = <<>> /\ waits = <<>> /\ childGot = {}
    /\ \A i \in 1..Len(sent) :
          sent[i][1] = "child" /\ launches = 1 /\ started_by_me

\* a reused server, after __exit__ has returned
C1_Witness ==
    acq = "Reused" /\ otherListening /\ pc = "exited_ok" /\ exitCalls = 1

\* C2: the signal calls of a release are a prefix of INT, TERM, KILL (fixed
\* order, each at most once); TERM is sent only after the INT call raised or
\* the wait after INT timed out, KILL only after the TERM call raised or the
\* wait after TERM timed out.  A child that is delivered INT, ignores it and
\* exits on TERM ends the release with exactly the calls INT, TERM; a child
\* that is delivered INT and exits on it gets no other signal.
C2_EscalationOrder ==
    /\ IsPrefix(SentSigs, Escalation)
    /\ Len(sent) >= 2 =>
          sent[1][3] = "raised" \/ <<"INT", "timeout">> \in {waits[i] : i \in 1..Len(waits)}
    /\ Len(sent) >= 3 =>
          sent[2][3] = "raised" \/ <<"TERM", "timeout">> \in {waits[i] : i \in 1..Len(waits)}
    /\ ("INT" \in childGot /\ childKind = "INT") =>
          /\ SentSigs = <<"INT">>
          /\ pc \in EndPcs => ~childAlive /\ waits = << <<"INT", "exited">> >>
    /\ ("INT" \in childGot /\ childKind = "TERM" /\ pc \in EndPcs
          /\ \A i \in 1..Len(sent) : sent[i][3] = "ok") =>
          /\ SentSigs = <<"INT", "TERM">>
          /\ waits = << <<"INT", "timeout">>, <<"TERM", "exited">> >>
          /\ ~childAlive

\* the child ignored INT and was stopped by TERM
C2_Witness ==
    /\ pc \in EndPcs /\ childKind = "TERM" /\ childGot = {"INT", "TERM"}
    /\ SentSigs = <<"INT", "TERM">> /\ ~childAlive

\* C3: __exit__ is never called twice, not before the body has been left,
\* and has been called exactly once when the with statement has been left
\* after a successful __enter__, whether the body returned or raised.
C3_ReleaseOnce ==
    /\ exitCalls <= 1
    /\ pc \in AcquirePcs \cup BodyPcs => exitCalls = 0
    /\ (acq \in {"Reused", "Ready"} /\ pc \in ExitPcs \ {"exit_guard"}) => exitCalls = 1
    /\ (acq \in {"Reused", "Ready"} /\ pc \in EndPcs) => exitCalls = 1

\* the body raised, and __exit__ has run once
C3_Witness ==
    /\ acq = "Ready" /\ exc = "ChatError" /\ pc = "exited_err"
    /\ exitCalls = 1

\* C4: once the with statement has been left, no child launched by this
\* object is still running without a signal call having been made on it.
C4_NoOrphan ==
    (pc \in EndPcs /\ launches > 0 /\ childAlive) => sent # <<>>

\* C5: the child is launched at most once and a failed start is final;
\* TimeoutError is raised no earlier than the deadline and no later than
\* one poll interval plus one probe timeout after it; the polling loop
\* never runs beyond that instant; Ready needs a successful probe and
\* "exited early" a dead child, so a run whose port stays closed and whose
\* child stays alive can only end in the timeout.
C5_TimeoutAtDeadline ==
    /\ launches <= 1
    /\ acq = "FailedTimeout" =>
          /\ launches = 1 /\ pc = "exited_err" /\ exc = "TimeoutError"
          /\ now >= deadline
          /\ now <= deadline + PollInterval + ProbeTimeout
    /\ pc \in PollPcs => now <= deadline + PollInterval + ProbeTimeout
    /\ acq = "Ready" => probeOk
    /\ acq = "FailedExited" => ~childAlive

\* the port never opened, the child is still alive, the deadline has passed
C5_Witness ==
    /\ acq = "FailedTimeout" /\ childAlive /\ ~is_port_open /\ ~openedEarly
    /\ now > deadline

\* C6 as stated: ... and whenever the port became reachable within one
\* second of the launch, the acquisition ends in Ready before the deadline.
C6_Original ==
    /\ (launches = 1 /\ pc \notin PollPcs) =>
          acq \in {"Ready", "FailedExited", "FailedTimeout"}
    /\ acq = "Ready" => probeOk /\ probeInTime
    /\ (openedEarly /\ pc \notin PollPcs) => acq = "Ready" /\ probeInTime

\* C6, amended: an acquisition that launched a child ends in exactly one of
\* Ready, Failed(exited early), Failed(timeout); it returns Ready only when
\* a probe started before the deadline succeeded; and while the port has
\* been reachable without interruption since an instant within one second
\* of the launch and the child is running, the acquisition has not failed,
\* is past polling within one poll interval plus one probe timeout of the
\* first second, and is Ready before the deadline.
C6_ReadyWhenPortStaysOpen ==
    /\ (launches = 1 /\ pc \notin PollPcs) =>
          acq \in {"Ready", "FailedExited", "FailedTimeout"}
    /\ acq = "Ready" => probeOk /\ probeInTime
    /\ (openSinceEarly /\ childAlive) =>
          /\ acq \notin Failed
          /\ now <= launchTime + 5 * PollInterval + PollInterval + ProbeTimeout
          /\ now < deadline
          /\ pc \notin PollPcs => acq = "Ready"

\* the launched child opened the port in its first second and is serving
C6_Witness ==
    /\ acq = "Ready" /\ openSinceEarly /\ childAlive /\ childListening
    /\ now > launchTime + 5 * PollInterval

\* C7 as stated: a poll that finds the child exited never ends in Ready,
\* whatever the port: its probe leads on to the poll of the child, and the
\* poll of the child raises.
C7_Original ==
    [][(pc \in {"probe", "pollchild"} /\ ~childAlive /\ pc' # pc) =>
          IF pc = "probe" THEN pc' = "pollchild"
          ELSE acq' = "FailedExited" /\ exc' = "RuntimeError"]_vars

\* C7, amended: a poll that finds the child exited ends in
\* Failed(exited early), a RuntimeError, when its port probe fails; when its
\* port probe succeeds (another process is listening) it ends in Ready,
\* because the port is probed before the child is polled.
C7_ExitedEarlyUnlessPortOpen ==
    [][(pc \in {"probe", "pollchild"} /\ ~childAlive /\ pc' # pc) =>
          IF pc = "probe"
              THEN IF is_port_open THEN acq' = "Ready" /\ pc' = "body_exists"
                                   ELSE pc' = "pollchild"
              ELSE acq' = "FailedExited" /\ exc' = "RuntimeError"
                   /\ pc' = "exited_err"]_vars

\* the child exited with the port closed: RuntimeError
C7_Witness ==
    /\ acq = "FailedExited" /\ exc = "RuntimeError" /\ pc = "exited_err"
    /\ ~childAlive /\ ~is_port_open

\* C8: after a failed acquisition the exception is in flight out of the
\* with statement and summarize_file has not run: no call of ollama.chat,
\* the summary file neither opened nor written.
C8_FailedSkipsWorkload ==
    acq \in Failed =>
        /\ pc = "exited_err" /\ exc \in {"RuntimeError", "TimeoutError"}
        /\ chatCalls = 0 /\ written = 0 /\ outFile \in {"absent", "stale"}

\* a start that failed although the transcript was there to summarize
C8_Witness ==
    /\ acq \in Failed /\ pc = "exited_err" /\ inputFile = "ok"
    /\ outFile = "stale"

\* C9: a release makes at most two waits, each with a timeout, at most
\* three signal calls and at most one kill, and every release that has
\* begun comes to its end, whatever the child does and whether or not the
\* signal calls raise.
C9_ReleaseTerminates ==
    /\ [](/\ Len(waits) <= 2
          /\ Len(sent) <= 3
          /\ Cardinality({i \in 1..Len(sent) : sent[i][2] = "KILL"}) <= 1)
    /\ (pc \in ExitPcs) ~> (pc \in EndPcs)

\* a child that ignored INT and TERM: two waits timed out, then the kill
C9_Witness ==
    /\ pc \in EndPcs /\ childKind = "KILL" /\ SentSigs = Escalation
    /\ waits = << <<"INT", "timeout">>, <<"TERM", "timeout">> >>
    /\ ~childAlive

--------------------------------------------------------------------------
(* Properties of the detection pipeline                                    *)

LongEnough(d) == d.end - d.start >= min_duration

\* C10: filter_short_segments returns exactly the detections of its input
\* with end - start >= min_duration, in their original order (so one whose
\* duration equals the threshold is kept), and leaves the input as it was.
C10_FilterIsSubsequence ==
    ppc = "merge" =>
        /\ filtered_segments = SelectSeq(input, LongEnough)
        /\ \A i \in 1..Len(input) :
              input[i].end - input[i].start = min_duration =>
                  \E j \in 1..Len(filtered_segments) :
                      filtered_segments[j] = input[i]
        /\ segments = input

\* three detections: the middle one is too short, the last one has exactly
\* the threshold's duration
C10_Witness ==
    /\ ppc = "merge" /\ Len(input) = 3 /\ min_duration = 1
    /\ ~LongEnough(input[2])
    /\ input[3].end - input[3].start = min_duration
    /\ filtered_segments = <<input[1], input[3]>>
    /\ input[1] # input[3]

--------------------------------------------------------------------------
(* Properties of merge_segments                                            *)

\* the detections the filter kept, as they were handed over
Kept == SelectSeq(input, LongEnough)

\* place of the i-th detection of D in the stable start-ascending order
Place(D, i) ==
    1 + Cardinality({j \in 1..Len(D) :
                        \/ D[j].start < D[i].start
                        \/ D[j].start = D[i].start /\ j < i})

StableOrder(D) ==
    [p \in 1..Len(D) |-> D[CHOOSE i \in 1..Len(D) : Place(D, i) = p]]

\* the places of S where a maximal run of one speaker begins
RunStarts(S) == {p \in 1..Len(S) : p = 1 \/ S[p].speaker # S[p - 1].speaker}

\* the number of the run that place p of S lies in
TurnOf(S, p) == Cardinality({b \in RunStarts(S) : b <= p})

RunAt(S, t) == {p \in 1..Len(S) : TurnOf(S, p) = t}

First(R) == CHOOSE p \in R : \A q \in R : p <= q

MaxEnd(S, R) == CHOOSE e \in {S[p].end : p \in R} : \A q \in R : S[q].end <= e

\* C11: merge_segments returns one turn per maximal run of equal-speaker
\* detections in the stable start-ascending order of its input: the turn
\* has the speaker and the start of the first detection of the run and the
\* largest end of the run; consecutive turns differ in speaker; an empty
\* input gives an empty output; the input detections are left as they were.
C11_MergeIsRunsOfStableOrder ==
    ppc = "process" =>
        LET S == StableOrder(Kept)
            M == merged_segments
        IN  /\ Len(M) = Cardinality(RunStarts(S))
            /\ \A t \in 1..Len(M) :
                  LET R == RunAt(S, t)
                  IN  /\ M[t].speaker = S[First(R)].speaker
                      /\ M[t].start = S[First(R)].start
                      /\ M[t].end = MaxEnd(S, R)
            /\ \A t \in 1..(Len(M) - 1) : M[t].speaker # M[t + 1].speaker
            /\ (Kept = <<>> => M = <<>>)
            /\ filtered_segments = Kept
            /\ segments = input

\* an unsorted input of three detections: the two that start first are of
\* one speaker and the first of them ends last
C11_Witness ==
    /\ ppc = "process"
    /\ Len(filtered_segments) = 3
    /\ filtered_segments[1].start > filtered_segments[2].start
    /\ filtered_segments[2].speaker = filtered_segments[3].speaker
    /\ filtered_segments[2].end > filtered_segments[3].end
    /\ Len(merged_segments) = 2
    /\ merged_segments[1] = filtered_segments[2]
    /\ merged_segments[2] = filtered_segments[1]

\* C12: merge_segments returns at most as many turns as it was given
\* detections, and the starts of the turns never decrease along the output.
C12_MergeCountAndOrder ==
    ppc = "process" =>
        /\ Len(merged_segments) <= Len(Kept)
        /\ \A t \in 1..(Len(merged_segments) - 1) :
              merged_segments[t].start <= merged_segments[t + 1].start

\* three detections given in descending start order come out as two turns
\* in ascending start order
C12_Witness ==
    /\ ppc = "process"
    /\ Len(filtered_segments) = 3
    /\ filtered_segments[1].start > filtered_segments[3].start
    /\ Len(merged_segments) = 2
    /\ merged_segments[1].start < merged_segments[2].start

\* C13: merge_segments applied to its own output returns that output, the
\* same turns in the same order.
C13_MergeIdempotent ==
    ppc = "process" =>
        merge_segments(merged_segments).merged = merged_segments

\* an output of two turns with equal starts, the first of them merged from
\* two detections
C13_Witness ==
    /\ ppc = "process"
    /\ Len(filtered_segments) = 3
    /\ Len(merged_segments) = 2
    /\ merged_segments[1].start = merged_segments[2].start
    /\ merged_segments[1].end > filtered_segments[1].end
    /\ merge_segments(merged_segments).merged = merged_segments

\* C14: after the filter and the merge, two kept detections of one speaker
\* are in one turn exactly when no kept detection of another speaker lies
\* between them in the stable start order, whatever the gap in time; the
\* turn a detection is in has its speaker and spans it; and the scenario
\* [(A,0,2),(B,2.5,2.8),(A,3,5)] with threshold 1.0 gives the single turn
\* (A,0,5).
C14_MergeByAdjacencyOnly ==
    ppc = "process" =>
        LET S == StableOrder(Kept)
        IN  /\ Len(turn_of) = Len(S)
            /\ \A p \in 1..Len(S) :
                  /\ turn_of[p] \in 1..Len(merged_segments)
                  /\ merged_segments[turn_of[p]].speaker = S[p].speaker
                  /\ merged_segments[turn_of[p]].start <= S[p].start
                  /\ merged_segments[turn_of[p]].end >= S[p].end
            /\ \A p, q \in 1..Len(S) :
                  (p < q /\ S[p].speaker = S[q].speaker) =>
                      (turn_of[p] = turn_of[q]
                          <=> \A r \in p..q : S[r].speaker = S[p].speaker)
            /\ (input = Scenario /\ min_duration = 10) =>
                  merged_segments =
                      << [speaker |-> "A", start |-> 0, end |-> 50] >>

\* the scenario: the short detection of B is dropped and the two of A, one
\* second apart, are one turn
C14_Witness ==
    /\ ppc = "process"
    /\ input = Scenario
    /\ filtered_segments = <<Scenario[1], Scenario[3]>>
    /\ filtered_segments[2].start > filtered_segments[1].end
    /\ turn_of = <<1, 1>>
    /\ Len(merged_segments) = 1

\* C20: whatever the detections are, those with end <= start among them,
\* every turn that filter_short_segments with a threshold > 0 and then
\* merge_segments hand to process_segments has end > start.
C20_TurnsHavePositiveSpan ==
    (ppc = "process" /\ min_duration > 0) =>
        \A t \in 1..Len(merged_segments) :
            merged_segments[t].end > merged_segments[t].start

\* a detection with a negative span and one with an empty span come in
\* with a third one, which is the only turn that comes out
C20_Witness ==
    /\ ppc = "process" /\ min_duration > 0
    /\ Len(input) = 3
    /\ \E i, j \in 1..3 : /\ input[i].end < input[i].start
                          /\ input[j].end = input[j].start
    /\ Len(merged_segments) = 1
    /\ merged_segments[1].end > merged_segments[1].start

--------------------------------------------------------------------------
(* Properties of process_segments and transcribe_segment                   *)

\* C15: a failure of the transcription never ends process_segments; when it
\* has returned there is a result for every turn, the transcript of a turn
\* whose transcription failed is the sentinel text with the cause, and the
\* transcript of every other turn is the text whisper gives for its slice.
C15_TranscriptionFailureContained ==
    /\ pexc \notin Failures
    /\ ppc = "save" =>
          /\ Len(results) = Len(merged_segments)
          /\ Len(outcomes) = Len(merged_segments)
          /\ \A k \in 1..Len(results) :
                results[k].transcript =
                    IF outcomes[k] = "ok"
                        THEN Whisper(Slice(merged_segments[k]))
                        ELSE Sentinel(outcomes[k])

\* two turns, the transcription of the first one failed and that of the
\* second one did not
C15_Witness ==
    /\ ppc = "save"
    /\ Len(merged_segments) = 2
    /\ outcomes = <<"RuntimeError", "ok">>
    /\ results[1].transcript = Sentinel("RuntimeError")
    /\ results[2].transcript = Whisper(Slice(merged_segments[2]))

\* C16: once transcribe_segment has been left, by a return or by an
\* exception of the transcription or of the export, no temporary file
\* exists.
C16_NoTempFileLeft ==
    ppc \in {"process", "save", "raised"} => tempFiles = {}

\* C17: process_segments takes the turns one after another in their order:
\* at every moment the results are those of the turns before the current
\* one, each with the speaker, start and end of its turn, and when it has
\* returned there is one result per turn (none for no turns).
C17_OneResultPerTurnInOrder ==
    /\ Len(results) <= Len(merged_segments)
    /\ \A k \in 1..Len(results) :
          /\ results[k].speaker = merged_segments[k].speaker
          /\ results[k].start = merged_segments[k].start
          /\ results[k].end = merged_segments[k].end
    /\ ppc \in {"tempfile", "export", "transcribe"} => Len(results) = turn - 1
    /\ ppc = "process" => Len(results) = turn
    /\ ppc = "save" => Len(results) = Len(merged_segments)

\* two different turns, the later one first
C17_Witness ==
    /\ ppc = "save"
    /\ Len(merged_segments) = 2
    /\ merged_segments[1].start > merged_segments[2].start
    /\ merged_segments[1].speaker # merged_segments[2].speaker
    /\ Len(results) = 2
    /\ results[1].start > results[2].start

--------------------------------------------------------------------------
(* The ownership flag of the supervisor                                    *)

\* C19: in every state started_by_me implies that proc is set, also after a
\* launch that failed; and the only step that changes started_by_me is the
\* launch of a child during acquisition, which sets it together with proc:
\* the workload and the release leave it as it is.
C19_FlagImpliesHandle ==
    /\ [](started_by_me => proc # "None")
    /\ [][started_by_me' # started_by_me =>
              /\ pc = "launch"
              /\ started_by_me'
              /\ proc' = "child"
              /\ launches' = launches + 1]_vars

\* a launched server after the workload and the release
C19_Witness ==
    /\ pc = "exited_ok"
    /\ started_by_me /\ proc = "child"
    /\ acq = "Ready" /\ exitCalls = 1 /\ written > 0
    /\ Len(sent) > 0

--------------------------------------------------------------------------
(* Missing inputs                                                          *)

\* C18: with the source audio file missing, diarize_and_transcribe ends
\* with None at once, and no step of it loads a model or touches the
\* report file; with the transcript input file missing or unreadable,
\* summarize_file never calls ollama.chat and no step touches the summary
\* output file.
C18_MissingInputTouchesNothing ==
    /\ []((ppc # "idle" /\ audioFile = "missing") =>
              /\ ppc \in {"start", "returned_none"}
              /\ ~modelsLoaded
              /\ report # "written")
    /\ []((pc # "off" /\ inputFile \in {"missing", "unreadable"}) =>
              /\ chatCalls = 0
              /\ outFile \in {"absent", "stale"}
              /\ written = 0)
    /\ [][(ppc # "idle" /\ audioFile = "missing") =>
              /\ modelsLoaded' = modelsLoaded
              /\ report' = report]_vars
    /\ [][(pc # "off" /\ inputFile \in {"missing", "unreadable"}) =>
              /\ chatCalls' = chatCalls
              /\ outFile' = outFile]_vars

\* the audio file is missing, a report of an earlier run is there, and
\* diarize_and_transcribe has returned None
C18_Witness ==
    /\ ppc = "returned_none"
    /\ audioFile = "missing"
    /\ ~modelsLoaded
    /\ report = "stale"
    /\ results = <<>>
====
